---- MODULE Spec2Model ----
(***************************************************************************)
(* Model of sd_watcher_afk: the AFK watcher (afk.py), the idle probe it    *)
(* queries (macos.py on Darwin), and the input listeners (listeners.py).   *)
(* The watcher runs under Spec; the listeners, which the watcher never     *)
(* calls, run under SpecListeners with their two callback threads and the  *)
(* consumer loop interleaved statement by statement.                       *)
(*                                                                         *)
(* Time is counted in milliseconds (td1ms = 1).  Settings are in seconds,  *)
(* as in the configuration, and are converted with Timedelta where the     *)
(* code builds a timedelta(seconds=...).  The idle probe's float reading   *)
(* is kept in milliseconds, so a reading r stands for r/1000 seconds and   *)
(* the comparison "seconds_since_input < timeout" is r < Timedelta(timeout)*)
(***************************************************************************)
EXTENDS Integers, Sequences, FiniteSets

\* ---------------------------------------------------------------- bounds
MaxSeconds == 2      \* settings (config values and overrides) range over 1..MaxSeconds seconds
MaxCycles == 3       \* number of loop cycles explored in one run
MaxJitter == 1       \* extra milliseconds a cycle may take beyond sleep(poll_time)
MaxIdlePolls == 3    \* idle readings go up to MaxIdlePolls poll intervals
MaxRuns == 2         \* number of times run() is called
MaxRerunCycles == 1  \* number of loop cycles explored in the second and later runs

\* ------------------------------------------------------ program constants
td1ms == 1
MsPerSecond == 1000
StartupSleep == 1
InitPid == 1
ParentPid == 2
ProbeSentinel == -1

Timedelta(seconds) == seconds * MsPerSecond

Systems == {"Windows", "Darwin", "Linux"}
bucketname == "sd-watcher-afk"

None == <<>>
Some(v) == <<v>>
Durations == 1 .. MaxSeconds
\* the configuration file: one whose timeout exceeds its poll_time (as the
\* shipped defaults do) and one that has them the wrong way round
Configs == {[timeout |-> MaxSeconds, poll_time |-> 1], [timeout |-> 1, poll_time |-> MaxSeconds]}
Overrides == {None, Some(0)} \cup {Some(d) : d \in Durations}

\* Python's "x or y" on an optional number: None and 0 are falsy.
Or(opt, default) == IF opt # None /\ opt[1] # 0 THEN opt[1] ELSE default

\* __init__'s args and the config section once __init__ has returned: the
\* watcher keeps only self.settings
Dropped == [timeout |-> None, poll_time |-> None]
NoSettings == [timeout |-> 0, poll_time |-> 0]
NoStop == [reason |-> "none", at |-> "none"]
NoCycle == [valid |-> FALSE, startAfk |-> FALSE, reading |-> 0, now |-> 0, beats |-> <<>>,
            run |-> 0, runBeats |-> 0, ok |-> TRUE]

VARIABLES
    system,               \* platform.system()
    config,               \* load_config(testing): [timeout, poll_time]
    args,                 \* command-line overrides: [timeout, poll_time], each None or Some(v)
    settings,             \* self.settings once constructed
    pc,                   \* position of the main thread
    stop,                 \* why and where the program stopped
    ppid,                 \* os.getppid()
    clock,                \* wall clock, ms
    afk,                  \* heartbeat_loop's local afk
    now,                  \* heartbeat_loop's local now
    seconds_since_input,  \* the probe's reading of this cycle, ms
    last_input,           \* now - timedelta(seconds=seconds_since_input)
    probe,                \* outcome of this cycle's probe query
    startAfk,             \* afk as it was when the cycle started
    beats,                \* heartbeats handed to client.heartbeat in this cycle
    prev,                 \* the previous completed cycle
    cycles,               \* completed cycles of this run
    probes,               \* probe queries of this run
    nsent,                \* heartbeats sent in this run
    buckets,              \* create_bucket calls
    runs,                 \* calls of run() so far, this one included
    new_event,            \* per listener: self.new_event (threading.Event)
    event_data,           \* per listener: the dict self.event_data refers to
    pos,                  \* MouseListener.pos
    cb,                   \* per listener: the callback its thread is running
    consumer,             \* the consumer loop's position and its local data
    counted,              \* per listener and key: total added by callbacks
    delivered,            \* per listener and key: total returned by next_event
    ninputs               \* per listener: callbacks started

vars == <<system, config, args, settings, pc, stop, ppid, clock, afk, now,
          seconds_since_input, last_input, probe, startAfk, beats, prev,
          cycles, probes, nsent, buckets, runs,
          new_event, event_data, pos, cb, consumer, counted, delivered, ninputs>>

listenerVars == <<new_event, event_data, pos, cb, consumer, counted, delivered, ninputs>>

cycleVars == <<now, seconds_since_input, last_input, probe, startAfk, beats>>
\* what no step of heartbeat_loop touches
envVars == <<system, config, args, runs, listenerVars>>

\* ------------------------------------------------------------ listeners
Listeners == {"keyboard", "mouse"}

\* the keys _reset_data gives each listener's event_data
Keys(l) == IF l = "keyboard" THEN {"presses"}
           ELSE {"clicks", "deltaX", "deltaY", "scrollX", "scrollY"}

\* _reset_data: a fresh dict with every count at zero
FreshData(l) == [k \in Keys(l) |-> 0]

\* no callback running on the listener's thread
Idle == [todo |-> <<>>, loaded |-> None, stale |-> FALSE, set |-> FALSE]

\* the consumer loop about to call has_new_event of a listener
AtCheck(l) == [who |-> l, at |-> "has_new_event", data |-> None]

\* EventFactory.__init__ of both listeners, MouseListener.__init__, and the
\* consumer loop before its first has_new_event
ListenersInit ==
    /\ new_event = [l \in Listeners |-> FALSE]
    /\ event_data = [l \in Listeners |-> FreshData(l)]
    /\ pos = None
    /\ cb = [l \in Listeners |-> Idle]
    /\ consumer = AtCheck("keyboard")
    /\ counted = [l \in Listeners |-> FreshData(l)]
    /\ delivered = [l \in Listeners |-> FreshData(l)]
    /\ ninputs = [l \in Listeners |-> 0]

\* readings the idle probe can return, in ms, for the settings in force
Readings(s) ==
    {0, td1ms, Timedelta(s.timeout) - td1ms, Timedelta(s.timeout)}
        \cup {k * Timedelta(s.poll_time) : k \in 0 .. MaxIdlePolls}

Init ==
    /\ system \in Systems
    /\ config \in Configs
    /\ args \in [timeout : Overrides, poll_time : Overrides]
    /\ settings = NoSettings
    /\ pc = "start"
    /\ stop = NoStop
    /\ ppid = ParentPid
    /\ clock = 0
    /\ afk = FALSE
    /\ now = 0
    /\ seconds_since_input = 0
    /\ last_input = 0
    /\ probe = "none"
    /\ startAfk = FALSE
    /\ beats = <<>>
    /\ prev = NoCycle
    /\ cycles = 0
    /\ probes = 0
    /\ nsent = 0
    /\ buckets = 0
    /\ runs = 1
    /\ ListenersInit

\* ------------------------------------------------------------- Settings
\* Settings.__init__: the values it stores
SettingsOf(config_section, timeout, poll_time) ==
    [timeout |-> Or(timeout, config_section.timeout),
     poll_time |-> Or(poll_time, config_section.poll_time)]

\* mutant: the assertion with its operands swapped
SettingsAssert_swapped(s) == s.poll_time >= s.timeout

\* Settings.__init__: the assertion
SettingsAssert(s) == s.timeout >= s.poll_time

\* AFKWatcher.__init__: Settings(...) then the client
AFKWatcher_init ==
    /\ pc = "start"
    /\ LET s == SettingsOf(config, args.timeout, args.poll_time) IN
        IF SettingsAssert(s)
        THEN /\ settings' = s
             /\ pc' = "constructed"
             /\ stop' = stop
        ELSE /\ settings' = settings
             /\ pc' = "stopped"
             /\ stop' = [reason |-> "assert", at |-> "start"]
    /\ UNCHANGED <<envVars, ppid, clock, afk, cycleVars, prev, cycles, probes, nsent, buckets>>

\* ------------------------------------------------------------------ run
\* mutant: the state survives from one call of heartbeat_loop to the next
heartbeat_loop_enter_keepsAfk == afk' = afk

\* line 92: heartbeat_loop starts with afk = False
heartbeat_loop_enter == afk' = FALSE

\* mutant: run() goes into the loop without creating the bucket
create_bucket_skipped == buckets' = buckets

\* line 82: create_bucket
create_bucket == buckets' = buckets + 1

\* run(): sleep(1), create_bucket, then heartbeat_loop starts with afk = False
Run ==
    /\ pc = "constructed"
    /\ args' = Dropped
    /\ config' = Dropped
    /\ clock' = clock + Timedelta(StartupSleep)
    /\ create_bucket
    /\ heartbeat_loop_enter
    /\ pc' = "loop_top"
    /\ UNCHANGED <<system, runs, settings, stop, ppid, cycleVars, prev, cycles, probes, nsent,
                   listenerVars>>

\* run() is called again after heartbeat_loop has returned: the clock and the
\* counters are those of the new run, the locals of the earlier call are gone,
\* and afk is left as the earlier run ended until line 92 sets it
Rerun ==
    /\ pc = "stopped"
    /\ stop.reason \in {"interrupt", "error", "parent"}
    /\ runs < MaxRuns
    /\ runs' = runs + 1
    /\ stop' = NoStop
    /\ clock' = Timedelta(StartupSleep)
    /\ buckets' = 0 /\ cycles' = 0 /\ probes' = 0 /\ nsent' = 0
    /\ now' = 0 /\ seconds_since_input' = 0 /\ last_input' = 0
    /\ probe' = "none" /\ startAfk' = FALSE /\ beats' = <<>>
    /\ prev' = NoCycle
    /\ pc' = "rerun"
    /\ UNCHANGED <<system, config, args, settings, ppid, afk, listenerVars>>

\* the second and later calls of run(): create_bucket, then heartbeat_loop
RunAgain ==
    /\ pc = "rerun"
    /\ create_bucket
    /\ heartbeat_loop_enter
    /\ pc' = "loop_top"
    /\ UNCHANGED <<envVars, settings, stop, ppid, clock, cycleVars, prev, cycles, probes, nsent>>

\* ------------------------------------------------------- heartbeat_loop
\* mutant: the orphaning check without its platform condition
ParentDied_anySystem == ppid = InitPid

\* the orphaning check and the reading of the clock that open a cycle
ParentDied == system \in {"Darwin", "Linux"} /\ ppid = InitPid

CycleStart ==
    /\ pc = "loop_top"
    /\ IF ParentDied
       THEN /\ pc' = "stopped"
            /\ stop' = [reason |-> "parent", at |-> "loop_top"]
            /\ UNCHANGED cycleVars
       ELSE /\ pc' = "probe"
            /\ now' = clock
            /\ startAfk' = afk
            /\ beats' = <<>>
            /\ probe' = "none"
            /\ UNCHANGED <<stop, seconds_since_input, last_input>>
    /\ UNCHANGED <<envVars, settings, ppid, clock, afk, prev, cycles, probes, nsent, buckets>>

\* mutant: last_input computed with the sign of the timedelta flipped
ProbeReturns_plus(r) ==
    /\ seconds_since_input' = r
    /\ last_input' = now + r
    /\ pc' = "branch"
    /\ stop' = stop

\* seconds_since_last_input() returns a reading
ProbeReturns(r) ==
    /\ seconds_since_input' = r
    /\ last_input' = now - r
    /\ pc' = "branch"
    /\ stop' = stop

\* seconds_since_last_input(): a reading, the macOS sentinel, or an exception
Probe ==
    /\ pc = "probe"
    /\ probes' = probes + 1
    /\ \/ \E r \in Readings(settings) : probe' = "ok" /\ ProbeReturns(r)
       \/ /\ system = "Darwin"
          /\ probe' = "sentinel"
          /\ ProbeReturns(Timedelta(ProbeSentinel))
       \/ /\ system # "Darwin"
          /\ probe' = "raised"
          /\ pc' = "stopped"
          /\ stop' = [reason |-> "error", at |-> "probe"]
          /\ UNCHANGED <<seconds_since_input, last_input>>
    /\ UNCHANGED <<envVars, settings, ppid, clock, afk, now, startAfk, beats, prev,
                   cycles, nsent, buckets>>

\* mutant: pulsetime without the poll interval
Heartbeat_shortPulse(isAfk, timestamp) ==
    [bucket |-> bucketname,
     status |-> IF isAfk THEN "afk" ELSE "not-afk",
     app |-> "afk",
     title |-> "Idle time",
     timestamp |-> timestamp,
     duration |-> 0,
     pulsetime |-> settings.timeout,
     queued |-> TRUE]

\* ping(): the event and the parameters handed to client.heartbeat
Heartbeat(isAfk, timestamp) ==
    [bucket |-> bucketname,
     status |-> IF isAfk THEN "afk" ELSE "not-afk",
     app |-> "afk",
     title |-> "Idle time",
     timestamp |-> timestamp,
     duration |-> 0,
     pulsetime |-> settings.timeout + settings.poll_time,
     queued |-> TRUE]

ping(isAfk, timestamp) ==
    /\ beats' = Append(beats, Heartbeat(isAfk, timestamp))
    /\ nsent' = nsent + 1

\* mutant: the timeout comparison of line 113 made strict
BecameAfk_strict == ~afk /\ seconds_since_input > Timedelta(settings.timeout)

NoLongerAfk == afk /\ seconds_since_input < Timedelta(settings.timeout)
BecameAfk == ~afk /\ seconds_since_input >= Timedelta(settings.timeout)

loopFrame == <<envVars, settings, stop, ppid, clock, now, seconds_since_input, last_input,
               probe, startAfk, prev, cycles, probes, buckets>>

\* mutant: the flip of line 111 left out
BackPing1_noFlip ==
    /\ pc = "branch"
    /\ NoLongerAfk
    /\ ping(FALSE, last_input)
    /\ afk' = afk
    /\ pc' = "back2"
    /\ UNCHANGED loopFrame

\* lines 110-111: first heartbeat of Idle -> Active, then the flip
BackPing1 ==
    /\ pc = "branch"
    /\ NoLongerAfk
    /\ ping(FALSE, last_input)
    /\ afk' = FALSE
    /\ pc' = "back2"
    /\ UNCHANGED loopFrame

\* mutant: the second heartbeat of Idle -> Active stamped now
BackPing2_stampsNow ==
    /\ pc = "back2"
    /\ ping(FALSE, now)
    /\ pc' = "sleep"
    /\ UNCHANGED <<afk, loopFrame>>

\* mutant: the second heartbeat of Idle -> Active stamped without the 1 ms offset
BackPing2_noOffset ==
    /\ pc = "back2"
    /\ ping(FALSE, last_input)
    /\ pc' = "sleep"
    /\ UNCHANGED <<afk, loopFrame>>

\* line 112
BackPing2 ==
    /\ pc = "back2"
    /\ ping(FALSE, last_input + td1ms)
    /\ pc' = "sleep"
    /\ UNCHANGED <<afk, loopFrame>>

\* lines 116-117: first heartbeat of Active -> Idle, then the flip
AwayPing1 ==
    /\ pc = "branch"
    /\ ~NoLongerAfk
    /\ BecameAfk
    /\ ping(TRUE, last_input)
    /\ afk' = TRUE
    /\ pc' = "away2"
    /\ UNCHANGED loopFrame

\* line 118
AwayPing2 ==
    /\ pc = "away2"
    /\ ping(TRUE, now)
    /\ pc' = "sleep"
    /\ UNCHANGED <<afk, loopFrame>>

\* mutant: no heartbeat when nothing changed
SteadyPing_silent ==
    /\ pc = "branch"
    /\ ~NoLongerAfk
    /\ ~BecameAfk
    /\ pc' = "sleep"
    /\ UNCHANGED <<afk, beats, nsent, loopFrame>>

\* mutant: the steady-state Active heartbeat stamped now
SteadyPing_activeNow ==
    /\ pc = "branch"
    /\ ~NoLongerAfk
    /\ ~BecameAfk
    /\ ping(afk, now)
    /\ pc' = "sleep"
    /\ UNCHANGED <<afk, loopFrame>>

\* mutant: the steady-state Idle heartbeat stamped last_input
SteadyPing_idleLastInput ==
    /\ pc = "branch"
    /\ ~NoLongerAfk
    /\ ~BecameAfk
    /\ ping(afk, last_input)
    /\ pc' = "sleep"
    /\ UNCHANGED <<afk, loopFrame>>

\* lines 119-124: the steady-state heartbeat
SteadyPing ==
    /\ pc = "branch"
    /\ ~NoLongerAfk
    /\ ~BecameAfk
    /\ IF afk THEN ping(TRUE, now) ELSE ping(FALSE, last_input)
    /\ pc' = "sleep"
    /\ UNCHANGED <<afk, loopFrame>>

PingPositions == {"branch", "back2", "away2"}

\* mutant: the except clause logs the error and lets the loop go on
PingRaises_continues ==
    /\ pc \in PingPositions
    /\ pc' = "sleep"
    /\ stop' = [reason |-> "error", at |-> pc]
    /\ UNCHANGED <<envVars, settings, ppid, clock, afk, cycleVars, prev, cycles, probes,
                   nsent, buckets>>

\* client.heartbeat raises: caught by "except Exception", the loop breaks
PingRaises ==
    /\ pc \in PingPositions
    /\ pc' = "stopped"
    /\ stop' = [reason |-> "error", at |-> pc]
    /\ UNCHANGED <<envVars, settings, ppid, clock, afk, cycleVars, prev, cycles, probes,
                   nsent, buckets>>

\* a cycle is steady when the reading's classification matches the state it started in
Steady(start, r) == start = (r >= Timedelta(settings.timeout))

\* does this cycle continue a run of steady cycles of one classification
ContinuesRun == prev.run > 0 /\ prev.startAfk = startAfk

\* have all readings of the run so far been non-negative and each at most the
\* one before it plus the time between the two cycles
ReadingsOk ==
    /\ seconds_since_input >= 0
    /\ prev.valid => (prev.ok /\ seconds_since_input <= prev.reading + (now - prev.now))

\* line 126: sleep(poll_time) closes the cycle
Sleep ==
    /\ pc = "sleep"
    /\ cycles < (IF runs = 1 THEN MaxCycles ELSE MaxRerunCycles)
    /\ \E d \in 0 .. MaxJitter :
        clock' = clock + Timedelta(settings.poll_time) + d
    /\ cycles' = cycles + 1
    /\ prev' = [valid |-> TRUE, startAfk |-> startAfk, reading |-> seconds_since_input,
                now |-> now, beats |-> beats,
                run |-> IF ~Steady(startAfk, seconds_since_input) THEN 0
                        ELSE IF ContinuesRun THEN prev.run + 1 ELSE 1,
                runBeats |-> IF ~Steady(startAfk, seconds_since_input) THEN 0
                             ELSE IF ContinuesRun THEN prev.runBeats + Len(beats) ELSE Len(beats),
                ok |-> ReadingsOk]
    /\ pc' = "loop_top"
    /\ UNCHANGED <<envVars, settings, stop, ppid, afk, cycleVars, probes, nsent, buckets>>

TryPositions == {"loop_top", "probe", "branch", "back2", "away2", "sleep"}

\* mutant: the interrupt is logged and the loop goes on to its next cycle
KeyboardInterrupt_continues ==
    /\ pc \in TryPositions
    /\ pc' = "loop_top"
    /\ stop' = [reason |-> "interrupt", at |-> pc]
    /\ UNCHANGED <<envVars, settings, ppid, clock, afk, cycleVars, prev, cycles, probes,
                   nsent, buckets>>

\* KeyboardInterrupt inside the try block
KeyboardInterrupt ==
    /\ pc \in TryPositions
    /\ pc' = "stopped"
    /\ stop' = [reason |-> "interrupt", at |-> pc]
    /\ UNCHANGED <<envVars, settings, ppid, clock, afk, cycleVars, prev, cycles, probes,
                   nsent, buckets>>

\* the parent process exits: the watcher is re-parented to init
ParentExits ==
    /\ pc \in TryPositions
    /\ ppid # InitPid
    /\ ppid' = InitPid
    /\ UNCHANGED <<envVars, settings, pc, stop, clock, afk, cycleVars, prev, cycles, probes,
                   nsent, buckets>>

Next ==
    \/ AFKWatcher_init
    \/ Run
    \/ Rerun
    \/ RunAgain
    \/ CycleStart
    \/ Probe
    \/ BackPing1
    \/ BackPing2
    \/ AwayPing1
    \/ AwayPing2
    \/ SteadyPing
    \/ PingRaises
    \/ Sleep
    \/ KeyboardInterrupt
    \/ ParentExits

Spec == Init /\ [][Next]_vars

\* ------------------------------------------------------------ properties
timeout_ms == Timedelta(settings.timeout)
poll_ms == Timedelta(settings.poll_time)
CycleDone == pc = "sleep"

\* C1: a cycle that starts Active and reads idle_seconds >= timeout emits
\* exactly two heartbeats, both afk, stamped now - idle_seconds and then now,
\* the second later than the first, and ends in state Idle.
C1_BecameAfkCycle ==
    (CycleDone /\ ~startAfk /\ seconds_since_input >= timeout_ms) =>
        /\ Len(beats) = 2
        /\ beats[1].status = "afk" /\ beats[2].status = "afk"
        /\ beats[1].timestamp = now - seconds_since_input
        /\ beats[2].timestamp = now
        /\ beats[2].timestamp > beats[1].timestamp
        /\ afk

C1_Witness ==
    CycleDone /\ ~startAfk /\ seconds_since_input = timeout_ms /\ Len(beats) = 2 /\ afk

\* C2: a cycle that starts Idle and reads idle_seconds < timeout emits
\* exactly two heartbeats, both not-afk, stamped last_input = now - idle_seconds
\* and then exactly last_input + 1 ms, and ends in state Active.
C2_NoLongerAfkCycle ==
    (CycleDone /\ startAfk /\ seconds_since_input < timeout_ms) =>
        /\ Len(beats) = 2
        /\ beats[1].status = "not-afk" /\ beats[2].status = "not-afk"
        /\ beats[1].timestamp = now - seconds_since_input
        /\ beats[2].timestamp = (now - seconds_since_input) + td1ms
        /\ ~afk

C2_Witness ==
    CycleDone /\ startAfk /\ seconds_since_input = timeout_ms - td1ms /\ Len(beats) = 2 /\ ~afk

\* C3: a cycle that starts Active and reads idle_seconds < timeout emits
\* exactly one heartbeat, not-afk, stamped last_input = now - idle_seconds,
\* and ends still Active.
C3_StillActiveCycle ==
    (CycleDone /\ ~startAfk /\ seconds_since_input < timeout_ms) =>
        /\ Len(beats) = 1
        /\ beats[1].status = "not-afk"
        /\ beats[1].timestamp = now - seconds_since_input
        /\ ~afk

C3_Witness ==
    CycleDone /\ ~startAfk /\ seconds_since_input = timeout_ms - td1ms /\ Len(beats) = 1 /\ ~afk

\* C4: a cycle that starts Idle and reads idle_seconds >= timeout emits
\* exactly one heartbeat, afk, stamped now (not last_input), and ends still Idle.
C4_StillIdleCycle ==
    (CycleDone /\ startAfk /\ seconds_since_input >= timeout_ms) =>
        /\ Len(beats) = 1
        /\ beats[1].status = "afk"
        /\ beats[1].timestamp = now
        /\ beats[1].timestamp # last_input
        /\ afk

C4_Witness ==
    CycleDone /\ startAfk /\ seconds_since_input = timeout_ms /\ Len(beats) = 1 /\ afk

\* C5: when the probe reports failure (it raises, or the macOS probe returns
\* its negative sentinel) the loop stops in that cycle and the cycle emits no
\* heartbeat.
ProbeFailed == probe \in {"raised", "sentinel"}

C5_ProbeFailureStopsLoop ==
    ProbeFailed => (beats = <<>> /\ pc \in {"branch", "stopped"})

\* readings consistent with elapsed time: this cycle's reading is at most the
\* previous cycle's reading plus the time between the two cycles
Consistent == seconds_since_input <= prev.reading + (now - prev.now)

StatusOf(isAfk) == IF isAfk THEN "afk" ELSE "not-afk"

\* C6: N consecutive steady cycles of one classification emit exactly N
\* heartbeats, all of that status, and (for readings consistent with elapsed
\* time) with non-decreasing timestamps.
C6_SteadyRun ==
    /\ prev.runBeats = prev.run
    /\ (CycleDone /\ Steady(startAfk, seconds_since_input) /\ ContinuesRun) =>
            /\ Len(beats) = 1 /\ Len(prev.beats) = 1
            /\ beats[1].status = StatusOf(startAfk)
            /\ prev.beats[1].status = StatusOf(startAfk)
            /\ Consistent => beats[1].timestamp >= prev.beats[1].timestamp

C6_Witness ==
    /\ CycleDone /\ Steady(startAfk, seconds_since_input) /\ ContinuesRun /\ Consistent
    /\ prev.run = 2 /\ ~startAfk
    /\ seconds_since_input < prev.reading

\* C7: a constructed Settings has timeout >= poll_time for its effective
\* values (the override when given, otherwise the config value), a
\* construction with timeout < poll_time fails, and it fails before any
\* bucket, probe query or heartbeat.
WhenGiven(opt, default) == IF opt # None THEN opt[1] ELSE default
Constructed == pc # "start" /\ stop.reason # "assert"

C7_SettingsValidated ==
    /\ pc = "constructed" =>
            WhenGiven(args.timeout, config.timeout) >= WhenGiven(args.poll_time, config.poll_time)
    /\ stop.reason = "assert" => (buckets = 0 /\ probes = 0 /\ nsent = 0)

\* C7 as amended: the effective value is the override when it is given and
\* non-zero, otherwise the config value (an override of 0 is falsy and falls
\* through to the config); with these values every constructed Settings has
\* timeout >= poll_time, a construction with timeout < poll_time fails, and it
\* fails before any bucket, probe query or heartbeat.
WhenNonZero(opt, default) == IF opt = None \/ opt = Some(0) THEN default ELSE opt[1]

C7_SettingsValidatedNonZero ==
    /\ Constructed => settings.timeout >= settings.poll_time
    /\ pc = "constructed" =>
            /\ settings.timeout = WhenNonZero(args.timeout, config.timeout)
            /\ settings.poll_time = WhenNonZero(args.poll_time, config.poll_time)
            /\ settings.timeout >= settings.poll_time
    /\ (/\ pc = "constructed" \/ stop.reason = "assert"
        /\ WhenNonZero(args.timeout, config.timeout)
                < WhenNonZero(args.poll_time, config.poll_time)) => stop.reason = "assert"
    /\ stop.reason = "assert" => (buckets = 0 /\ probes = 0 /\ nsent = 0)

C7_Witness ==
    /\ pc = "constructed"
    /\ args.timeout = Some(0) /\ args.poll_time # None
    /\ settings.timeout = config.timeout
    /\ settings.poll_time = args.poll_time[1]

\* C8: two consecutive steady-state heartbeats of one status are at most
\* pulsetime = timeout + poll_time apart, given timeout >= poll_time, cycles
\* spaced poll_time apart and readings consistent with elapsed time.
C8_SteadyPulsesMerge ==
    (/\ CycleDone /\ prev.valid
     /\ Steady(startAfk, seconds_since_input) /\ Steady(prev.startAfk, prev.reading)
     /\ startAfk = prev.startAfk
     /\ settings.timeout >= settings.poll_time
     /\ now - prev.now = poll_ms
     /\ Consistent) =>
        beats[1].timestamp - prev.beats[1].timestamp
            <= Timedelta(settings.timeout + settings.poll_time)

\* C9: every heartbeat is sent with pulsetime = timeout + poll_time, duration
\* 0, queued, title "Idle time" and status afk or not-afk, and the settings
\* these come from never change during a run.
HeartbeatParamsOk(h) ==
    /\ h.pulsetime = settings.timeout + settings.poll_time
    /\ h.duration = 0
    /\ h.queued = TRUE
    /\ h.title = "Idle time"
    /\ h.status \in {"afk", "not-afk"}

C9_HeartbeatParameters ==
    /\ [](/\ \A i \in 1 .. Len(beats) : HeartbeatParamsOk(beats[i])
          /\ \A i \in 1 .. Len(prev.beats) : HeartbeatParamsOk(prev.beats[i]))
    /\ [][Constructed => settings' = settings]_vars

C9_Witness ==
    CycleDone /\ Len(beats) = 2 /\ Len(prev.beats) = 1 /\ settings.poll_time < settings.timeout

\* C10: an error raised by the probe or by a heartbeat transmission stops the
\* loop: no probe query and no heartbeat follows it; when the first heartbeat
\* of a cycle raises, nothing is emitted in that cycle and the state is not
\* flipped.
C10_ErrorStopsLoop ==
    /\ [](stop.reason = "error" =>
            /\ pc = "stopped"
            /\ stop.at \in {"probe", "branch"} => (beats = <<>> /\ afk = startAfk)
            /\ stop.at \in {"back2", "away2"} => Len(beats) = 1)
    /\ [][(stop.reason = "error" /\ runs' = runs) =>
                (probes' = probes /\ nsent' = nsent /\ pc' = pc)]_vars

C10_Witness ==
    /\ pc = "stopped" /\ stop = [reason |-> "error", at |-> "branch"]
    /\ ~Steady(startAfk, seconds_since_input)
    /\ beats = <<>> /\ afk = startAfk /\ cycles > 0

\* C11: a KeyboardInterrupt observed by the loop (during the sleep, the probe
\* query or between the two heartbeats of a transition) ends the loop: no new
\* cycle, no further probe query or heartbeat, and the exit is the
\* cancellation path, not the error path.
C11_InterruptStopsLoop ==
    /\ [](stop.reason = "interrupt" => (pc = "stopped" /\ stop.at \in TryPositions))
    /\ [][/\ (stop.reason = "interrupt" /\ runs' = runs) =>
                (pc' = pc /\ probes' = probes /\ nsent' = nsent /\ cycles' = cycles)
          /\ (pc = "sleep" /\ pc' = "stopped") => stop'.reason = "interrupt"]_vars

C11_Witness ==
    /\ pc = "stopped" /\ stop = [reason |-> "interrupt", at |-> "back2"]
    /\ Len(beats) = 1

\* C12: on Darwin and Linux a parent process id of 1 at the top of a cycle
\* ends the loop there, with no probe query and no heartbeat in that cycle and
\* no later cycle; on other platforms the check never stops the loop.
Posix == system \in {"Darwin", "Linux"}

C12_OrphanCheck ==
    /\ [](stop.reason = "parent" =>
            /\ pc = "stopped" /\ stop.at = "loop_top"
            /\ Posix /\ ppid = InitPid)
    /\ [][/\ (pc = "loop_top" /\ Posix /\ ppid = InitPid /\ pc' # pc) =>
                (pc' = "stopped" /\ probes' = probes /\ nsent' = nsent /\ cycles' = cycles)
          /\ (stop.reason = "parent" /\ runs' = runs) =>
                (pc' = pc /\ probes' = probes /\ nsent' = nsent)
          /\ (~Posix /\ pc = "loop_top" /\ pc' = "stopped") => stop'.reason = "interrupt"]_vars

C12_Witness ==
    /\ pc = "stopped" /\ stop.reason = "parent" /\ system = "Linux"
    /\ cycles > 0 /\ probes = cycles

\* C13: every run of heartbeat_loop starts Active whatever the earlier run
\* left, so its first completed cycle emits one not-afk heartbeat when
\* idle_seconds < timeout and two afk heartbeats otherwise; within a run only
\* the two transition branches change the state.
C13_FreshRunIsActive ==
    /\ []((pc = "loop_top" /\ cycles = 0) => ~afk)
    /\ []((CycleDone /\ cycles = 0) =>
            IF seconds_since_input < timeout_ms
            THEN Len(beats) = 1 /\ beats[1].status = "not-afk"
            ELSE Len(beats) = 2 /\ beats[1].status = "afk" /\ beats[2].status = "afk")
    /\ [][afk' # afk =>
            \/ pc \in {"constructed", "rerun"}
            \/ pc = "branch" /\ pc' \in {"back2", "away2"} /\ Len(beats') = 1]_vars

C13_Witness ==
    runs = 2 /\ CycleDone /\ cycles = 0 /\ Len(beats) = 1 /\ ~afk

\* C14: in a run the bucket is created exactly once, before the first
\* heartbeat, and every heartbeat goes to that bucket.
C14_BucketBeforeHeartbeats ==
    /\ buckets <= 1
    /\ nsent > 0 => buckets = 1
    /\ pc \in TryPositions => buckets = 1
    /\ \A i \in 1 .. Len(beats) : beats[i].bucket = bucketname
    /\ \A i \in 1 .. Len(prev.beats) : prev.beats[i].bucket = bucketname

C14_Witness ==
    CycleDone /\ cycles = 1 /\ nsent = 3 /\ buckets = 1

\* C15: cycles run strictly one after the other: a probe query happens only
\* after every earlier cycle has emitted its heartbeats and finished its
\* sleep, and a completed cycle is one probe query followed by one or two
\* heartbeats.
C15_SequentialCycles ==
    /\ pc \in {"loop_top", "probe"} => probes = cycles
    /\ pc \in {"branch", "back2", "away2", "sleep"} => probes = cycles + 1
    /\ pc \in {"probe", "branch"} => beats = <<>>
    /\ pc \in {"back2", "away2"} => Len(beats) = 1
    /\ CycleDone => Len(beats) \in {1, 2}
    /\ prev.valid => Len(prev.beats) \in {1, 2}
    /\ pc \in TryPositions => (nsent >= cycles /\ nsent <= 2 * cycles + Len(beats))

C15_Witness ==
    CycleDone /\ cycles = 2 /\ probes = 3 /\ Len(beats) = 2 /\ Len(prev.beats) = 1

\* the heartbeats of the previous cycle and of this one, in emission order
LastTwoCycles == prev.beats \o beats
Ordered(hs) == \A i \in 1 .. Len(hs) - 1 : hs[i].timestamp <= hs[i + 1].timestamp

\* C16: given readings that are non-negative and consistent with elapsed
\* time, the timestamps of all heartbeats of a run are non-decreasing in
\* emission order, also across a transition and the cycle after it.
C16_TimestampsNonDecreasing ==
    (CycleDone /\ ReadingsOk) => Ordered(LastTwoCycles)

\* C16 as amended: the timestamps are non-decreasing with two exceptions.  The
\* heartbeat that follows an Idle -> Active transition is stamped last_input,
\* which can be 1 ms before the last_input + 1 ms heartbeat that closed the
\* transition, never earlier than the transition's first heartbeat.  The first
\* heartbeat of an Idle -> Active transition is stamped last_input, which is
\* not earlier than the preceding Idle heartbeat (stamped now) only when
\* idle_seconds is at most the time elapsed since the previous cycle.
WasBackCycle == prev.valid /\ prev.startAfk /\ prev.reading < timeout_ms
IsBackCycle == startAfk /\ seconds_since_input < timeout_ms

C16_TimestampsNearlyNonDecreasing ==
    (CycleDone /\ ReadingsOk) =>
        /\ Ordered(beats)
        /\ prev.valid =>
            LET closing == prev.beats[Len(prev.beats)].timestamp
                opening == beats[1].timestamp
            IN  IF WasBackCycle
                THEN opening >= closing - td1ms /\ opening >= prev.beats[1].timestamp
                ELSE IF IsBackCycle
                THEN seconds_since_input <= now - prev.now => opening >= closing
                ELSE opening >= closing

C16_Witness ==
    /\ CycleDone /\ ReadingsOk /\ WasBackCycle
    /\ Len(beats) = 1 /\ beats[1].status = "not-afk"
    /\ beats[1].timestamp = prev.beats[2].timestamp - td1ms

\* C17: in every Active -> Idle transition cycle, the first cycle of a run
\* included, the two afk heartbeats (stamped last_input and now) are at most
\* pulsetime = timeout + poll_time apart.
C17_TransitionPulsesMerge ==
    (CycleDone /\ ~startAfk /\ seconds_since_input >= timeout_ms) =>
        beats[2].timestamp - beats[1].timestamp
            <= Timedelta(settings.timeout + settings.poll_time)

\* C18: after a completed cycle the state is Idle exactly when idle_seconds >=
\* timeout, every heartbeat of the cycle carries the status of that state, the
\* state at a cycle boundary is the status of the last heartbeat emitted, and
\* the state changes only in cycles that emit exactly two heartbeats.
C18_StateFollowsReading ==
    /\ CycleDone =>
        /\ afk = (seconds_since_input >= timeout_ms)
        /\ \A i \in 1 .. Len(beats) : beats[i].status = StatusOf(afk)
        /\ afk # startAfk => Len(beats) = 2
    /\ (pc = "loop_top" /\ prev.valid) =>
        /\ prev.beats[Len(prev.beats)].status = StatusOf(afk)
        /\ afk = (prev.reading >= timeout_ms)
        /\ afk # prev.startAfk => Len(prev.beats) = 2

C18_Witness ==
    pc = "loop_top" /\ prev.valid /\ afk # prev.startAfk /\ ~afk /\ Len(prev.beats) = 2

\* ======================================================== listeners.py
MaxInputs == 2       \* callbacks each listener thread runs
MaxCoord == 1        \* pointer coordinates range over 0..MaxCoord
MaxScroll == 1       \* scroll amounts range over -MaxScroll..MaxScroll

watcherVars == <<system, config, args, settings, pc, stop, ppid, clock, afk, now,
                 seconds_since_input, last_input, probe, startAfk, beats, prev,
                 cycles, probes, nsent, buckets, runs>>

\* the listeners' own program (the __main__ block): no watcher is constructed
InitListeners ==
    /\ system = "Linux"
    /\ config = Dropped
    /\ args = Dropped
    /\ settings = NoSettings
    /\ pc = "start"
    /\ stop = NoStop
    /\ ppid = ParentPid
    /\ clock = 0
    /\ afk = FALSE
    /\ now = 0
    /\ seconds_since_input = 0
    /\ last_input = 0
    /\ probe = "none"
    /\ startAfk = FALSE
    /\ beats = <<>>
    /\ prev = NoCycle
    /\ cycles = 0
    /\ probes = 0
    /\ nsent = 0
    /\ buckets = 0
    /\ runs = 1
    /\ ListenersInit

Abs(n) == IF n < 0 THEN -n ELSE n

\* a callback that is to run "self.event_data[k] += n" for each <<k, n>> of
\* incs and then self.new_event.set()
Begin(incs) == [todo |-> incs, loaded |-> None, stale |-> FALSE, set |-> TRUE]

\* pynput calls one callback at a time on a listener's thread
CanStart(l) == cb[l] = Idle /\ ninputs[l] < MaxInputs

\* KeyboardListener.on_press
on_press ==
    /\ CanStart("keyboard")
    /\ cb' = [cb EXCEPT !["keyboard"] = Begin(<< <<"presses", 1>> >>)]
    /\ ninputs' = [ninputs EXCEPT !["keyboard"] = @ + 1]
    /\ UNCHANGED <<watcherVars, new_event, event_data, pos, consumer, counted, delivered>>

\* MouseListener.on_click: only presses are counted
on_click ==
    /\ CanStart("mouse")
    /\ \E pressed \in BOOLEAN :
        cb' = IF pressed THEN [cb EXCEPT !["mouse"] = Begin(<< <<"clicks", 1>> >>)] ELSE cb
    /\ ninputs' = [ninputs EXCEPT !["mouse"] = @ + 1]
    /\ UNCHANGED <<watcherVars, new_event, event_data, pos, consumer, counted, delivered>>

\* MouseListener.on_move: the first move only records the position; later
\* moves add the absolute deltas when the pointer actually moved
on_move ==
    /\ CanStart("mouse")
    /\ \E x \in 0 .. MaxCoord, y \in 0 .. MaxCoord :
        /\ pos' = Some(<<x, y>>)
        /\ IF pos = None
           THEN cb' = cb
           ELSE LET deltaX == x - pos[1][1]
                    deltaY == y - pos[1][2]
                IN  IF deltaX # 0 \/ deltaY # 0
                    THEN cb' = [cb EXCEPT !["mouse"] =
                                   Begin(<< <<"deltaX", Abs(deltaX)>>, <<"deltaY", Abs(deltaY)>> >>)]
                    ELSE cb' = cb
    /\ ninputs' = [ninputs EXCEPT !["mouse"] = @ + 1]
    /\ UNCHANGED <<watcherVars, new_event, event_data, consumer, counted, delivered>>

\* MouseListener.on_scroll; a scroll event carries a non-zero amount
on_scroll ==
    /\ CanStart("mouse")
    /\ \E scroll_x \in -MaxScroll .. MaxScroll, scroll_y \in -MaxScroll .. MaxScroll :
        /\ scroll_x # 0 \/ scroll_y # 0
        /\ cb' = [cb EXCEPT !["mouse"] =
                     Begin(<< <<"scrollX", Abs(scroll_x)>>, <<"scrollY", Abs(scroll_y)>> >>)]
    /\ ninputs' = [ninputs EXCEPT !["mouse"] = @ + 1]
    /\ UNCHANGED <<watcherVars, new_event, event_data, pos, consumer, counted, delivered>>

\* "self.event_data[k] += n", first half: the thread takes the dict that
\* self.event_data refers to and reads d[k]
CallbackLoad(l) ==
    /\ cb[l].todo # <<>>
    /\ cb[l].loaded = None
    /\ cb' = [cb EXCEPT ![l].loaded = Some(event_data[l][cb[l].todo[1][1]]),
                        ![l].stale = FALSE]
    /\ UNCHANGED <<watcherVars, new_event, event_data, pos, consumer, counted, delivered, ninputs>>

\* "self.event_data[k] += n", second half: d[k] = value read + n, stored in
\* the dict taken by the first half, which self.event_data may no longer be
CallbackStore(l) ==
    /\ cb[l].loaded # None
    /\ LET k == cb[l].todo[1][1]
           n == cb[l].todo[1][2]
       IN  /\ event_data' = IF cb[l].stale THEN event_data
                            ELSE [event_data EXCEPT ![l][k] = cb[l].loaded[1] + n]
           /\ counted' = [counted EXCEPT ![l][k] = @ + n]
    /\ cb' = [cb EXCEPT ![l].todo = Tail(@), ![l].loaded = None, ![l].stale = FALSE]
    /\ UNCHANGED <<watcherVars, new_event, pos, consumer, delivered, ninputs>>

\* self.new_event.set(), which ends the callback
CallbackSet(l) ==
    /\ cb[l].set
    /\ cb[l].todo = <<>>
    /\ new_event' = [new_event EXCEPT ![l] = TRUE]
    /\ cb' = [cb EXCEPT ![l] = Idle]
    /\ UNCHANGED <<watcherVars, event_data, pos, consumer, counted, delivered, ninputs>>

\* ------------------------------------------------ the consumer's loop
Other(l) == IF l = "keyboard" THEN "mouse" ELSE "keyboard"

\* "if listener.has_new_event():" of the loop
has_new_event ==
    /\ consumer.at = "has_new_event"
    /\ consumer' = IF new_event[consumer.who]
                   THEN [consumer EXCEPT !.at = "clear"]
                   ELSE AtCheck(Other(consumer.who))
    /\ UNCHANGED <<watcherVars, new_event, event_data, pos, cb, counted, delivered, ninputs>>

\* next_event: self.new_event.clear()
next_event_clear ==
    /\ consumer.at = "clear"
    /\ new_event' = [new_event EXCEPT ![consumer.who] = FALSE]
    /\ consumer' = [consumer EXCEPT !.at = "copy"]
    /\ UNCHANGED <<watcherVars, event_data, pos, cb, counted, delivered, ninputs>>

\* next_event: data = self.event_data.copy()
next_event_copy ==
    /\ consumer.at = "copy"
    /\ consumer' = [consumer EXCEPT !.at = "reset", !.data = Some(event_data[consumer.who])]
    /\ UNCHANGED <<watcherVars, new_event, event_data, pos, cb, counted, delivered, ninputs>>

\* next_event: self._reset_data(), the assignment of a new dict to
\* self.event_data; a callback between its read and its store keeps the old one
reset_data ==
    /\ consumer.at = "reset"
    /\ LET l == consumer.who IN
        /\ event_data' = [event_data EXCEPT ![l] = FreshData(l)]
        /\ cb' = [cb EXCEPT ![l].stale = (cb[l].loaded # None)]
        /\ consumer' = [consumer EXCEPT !.at = IF l = "mouse" THEN "update" ELSE "return"]
    /\ UNCHANGED <<watcherVars, new_event, pos, counted, delivered, ninputs>>

\* MouseListener._reset_data: self.event_data.update({... 0 ...}) on the
\* defaultdict just assigned
reset_data_update ==
    /\ consumer.at = "update"
    /\ event_data' = [event_data EXCEPT ![consumer.who] = FreshData(consumer.who)]
    /\ consumer' = [consumer EXCEPT !.at = "return"]
    /\ UNCHANGED <<watcherVars, new_event, pos, cb, counted, delivered, ninputs>>

\* next_event: return data, which the loop prints
next_event_return ==
    /\ consumer.at = "return"
    /\ LET l == consumer.who IN
        /\ delivered' = [delivered EXCEPT ![l] = [k \in Keys(l) |-> @[k] + consumer.data[1][k]]]
        /\ consumer' = AtCheck(Other(l))
    /\ UNCHANGED <<watcherVars, new_event, event_data, pos, cb, counted, ninputs>>

NextListeners ==
    \/ on_press
    \/ on_click
    \/ on_move
    \/ on_scroll
    \/ \E l \in Listeners : CallbackLoad(l)
    \/ \E l \in Listeners : CallbackStore(l)
    \/ \E l \in Listeners : CallbackSet(l)
    \/ has_new_event
    \/ next_event_clear
    \/ next_event_copy
    \/ reset_data
    \/ reset_data_update
    \/ next_event_return

SpecListeners == InitListeners /\ [][NextListeners]_vars

\* the listener's callback thread is between callbacks and the consumer is
\* not inside the listener's next_event
Quiescent(l) == cb[l] = Idle /\ (consumer.who = l => consumer.at = "has_new_event")

NonZero(d) == \E k \in DOMAIN d : d[k] # 0

\* C19: no count is lost by snapshot-and-reset: what next_event has returned
\* plus what the accumulator holds is what the callbacks have counted
C19_NoCountLost ==
    \A l \in Listeners : Quiescent(l) =>
        \A k \in Keys(l) : delivered[l][k] + event_data[l][k] = counted[l][k]

\* C20: the event-ready flag agrees with the accumulator: a next_event entered
\* after has_new_event() returned true returns a non-zero count, and a
\* non-zero accumulator has its flag set
C20_FlagMatchesAccumulator ==
    /\ consumer.at = "return" => NonZero(consumer.data[1])
    /\ \A l \in Listeners : (Quiescent(l) /\ NonZero(event_data[l])) => new_event[l]
====
